---- MODULE Spec2Model ----
(***************************************************************************)
(* Model of `karmadactl deinit` (pkg/karmadactl/deinit.go): the command    *)
(* that removes a Karmada installation from a host cluster by label        *)
(* discovery.  The cluster API server is a set of object records; every    *)
(* API call of the command is one step, so that another actor of the       *)
(* cluster can act between a list call and the delete calls that follow.   *)
(***************************************************************************)
EXTENDS Integers, Sequences, FiniteSets, TLC

VARIABLES
  objects,         \* the objects stored by the cluster API server
  namespaces,      \* the namespaces that exist in the cluster
  o,               \* CommandDeInitOption: [DryRun, Namespace]
  stdin,           \* the lines not yet read from standard input
  read,            \* history: the lines Scanln has consumed in this invocation
  confirmed,       \* value returned by deleteConfirmation: "pending", "yes", "no"
  pc,              \* "start", "complete", "confirm", "list", "loop", "exited"
  stage,           \* kind whose block of delete()/removeNodeLabels() is executing
  items,           \* .Items of the last list call
  idx,             \* position of the range loop in items
  err,             \* "none" while running, else what RunE returned (or "exit1")
  log,             \* history: API calls issued and lines printed, in order
  start,           \* history: objects when this invocation began
  prevDone,        \* history: the previous invocation was a real teardown that finished
  removedByOther   \* history: objects another actor removed during this invocation

vars == <<objects, namespaces, o, stdin, read, confirmed, pc, stage, items, idx,
          err, log, start, prevDone, removedByOther>>

----------------------------------------------------------------------------
(* Bounds *)

MaxObjects == 3     \* objects (nodes included) in the initial cluster
MaxLines == 2       \* lines on standard input in the prompt specification
MaxExternal == 1    \* removals by another actor per invocation

----------------------------------------------------------------------------
(* Label keys, as character sequences so that strings.Contains is computed *)

LabelSelector ==
  <<"k","a","r","m","a","d","a",".","i","o","/",
    "b","o","o","t","s","t","r","a","p","p","i","n","g">>

karmadaNodeLabel ==
  <<"k","a","r","m","a","d","a",".","i","o","/","e","t","c","d">>

KeyEtcdVariant == karmadaNodeLabel \o <<"-","v","2">>
KeyOther == <<"o","t","h","e","r",".","i","o","/","x">>
KeyApp == <<"a","p","p">>

\* strings.Contains(s, substr)
Contains(s, substr) ==
  \E i \in 1..(Len(s) - Len(substr) + 1) : SubSeq(s, i, i + Len(substr) - 1) = substr

NoLabels == [k \in {} |-> ""]

----------------------------------------------------------------------------
(* The cluster *)

TargetNS == "karmada-system"
OtherNS == "default"
NoSuchNS == "no-such-namespace"

Obj(kind, ns, name, labels) == [kind |-> kind, ns |-> ns, name |-> name, labels |-> labels]

Id(ob) == <<ob.kind, ob.ns, ob.name>>

Boot == (LabelSelector :> "")

\* Objects the installer created, objects it did not, and nodes.
Universe ==
  { Obj("Deployment", TargetNS, "a", Boot), Obj("Deployment", TargetNS, "b", Boot),
    Obj("StatefulSet", TargetNS, "a", Boot),
    Obj("Service", TargetNS, "a", Boot), Obj("Service", TargetNS, "b", Boot),
    Obj("Secret", TargetNS, "a", Boot),
    Obj("ClusterRole", "", "a", Boot), Obj("ClusterRole", "", "b", Boot),
    Obj("Deployment", TargetNS, "c", (KeyApp :> "etcd")),
    Obj("Secret", OtherNS, "a", Boot),
    Obj("ClusterRole", "", "c", NoLabels),
    Obj("PersistentVolume", "", "a", Boot),
    Obj("Node", "", "a", (karmadaNodeLabel :> "" @@ KeyOther :> "1")),
    Obj("Node", "", "a", (KeyEtcdVariant :> "")),
    Obj("Node", "", "a", (karmadaNodeLabel :> "" @@ KeyEtcdVariant :> "")),
    Obj("Node", "", "b", (karmadaNodeLabel :> "")),
    Obj("Node", "", "b", (KeyOther :> "1")) }

UniqueIds(S) == \A x, y \in S : Id(x) = Id(y) => x = y

RECURSIVE UpTo(_)
UpTo(n) ==
  IF n = 0 THEN {{}}
  ELSE LET P == UpTo(n - 1) IN P \cup {s \cup {x} : s \in P, x \in Universe}

Clusters == {S \in UpTo(MaxObjects) : UniqueIds(S)}

NameOrder == <<"a", "b", "c">>

\* A list call answers in name order.
Ordered(S) ==
  LET F[i \in 0..Len(NameOrder)] ==
        IF i = 0 THEN <<>>
        ELSE LET m == {ob \in S : ob.name = NameOrder[i]}
             IN IF m = {} THEN F[i - 1] ELSE Append(F[i - 1], CHOOSE ob \in m : TRUE)
  IN F[Len(NameOrder)]


\* Variant: the list call issued without the label selector
ListItemsNoSelector(kind, ns, selector) ==
  Ordered({ob \in objects : ob.kind = kind /\ ob.ns = ns})

\* client.List(ctx, ListOptions{LabelSelector: selector}) in namespace ns
ListItems(kind, ns, selector) ==
  Ordered({ob \in objects : ob.kind = kind /\ ob.ns = ns /\ selector \in DOMAIN ob.labels})

Names(its) == [i \in 1..Len(its) |-> its[i].name]

Stored(kind, ns, name) == \E ob \in objects : Id(ob) = <<kind, ns, name>>

----------------------------------------------------------------------------
(* History entries *)

Ev(op, kind, name, res, names) ==
  [op |-> op, kind |-> kind, name |-> name, res |-> res, names |-> names]

Call(op, kind, name, res) == Ev(op, kind, name, res, <<>>)

\* Variant: the notice printed without the name of the object
NoticeUnnamed(kind, name) == Ev("print", kind, "", "", <<>>)

Notice(kind, name) == Ev("print", kind, name, "", <<>>)

----------------------------------------------------------------------------
(* Standard input: a line is a sequence of words, a word a sequence of characters *)

WordsYes == {<<"y">>, <<"Y">>, <<"y","e","s">>, <<"Y","E","S">>, <<"Y","e","s">>}
WordsNo == {<<"n">>, <<"N">>, <<"n","o">>, <<"N","O">>, <<"N","o">>}
WordsOther == {<<"m">>, <<"y","e">>}

AllLines ==
  {<<w>> : w \in WordsYes \cup WordsNo \cup WordsOther}
    \cup {<<>>, <<<<"y","e","s">>, <<"y">>>>}

RECURSIVE SeqsUpTo(_, _)
SeqsUpTo(S, n) ==
  IF n = 0 THEN {<<>>}
  ELSE LET P == SeqsUpTo(S, n - 1) IN P \cup {Append(q, x) : q \in P, x \in S}

\* Inputs of the teardown specification: accept, decline, re-prompt then
\* decline, re-prompt then accept, an empty line, end of input.
RunStdin ==
  { << <<<<"y","e","s">>>> >>, << <<<<"N">>>> >>,
    << <<<<"m">>>>, <<<<"n","o">>>> >>, << <<<<"m">>>>, <<<<"Y">>>> >>,
    << <<>> >>, <<>> }

\* fmt.Scanln(&response): one operand, so exactly one word before the newline
Scanln(in) ==
  IF in = <<>> THEN [err |-> "EOF", response |-> <<>>]
  ELSE IF Len(Head(in)) = 0 THEN [err |-> "unexpected newline", response |-> <<>>]
  ELSE IF Len(Head(in)) > 1 THEN [err |-> "expected newline", response |-> Head(in)[1]]
  ELSE [err |-> "nil", response |-> Head(in)[1]]

LowerChar(c) ==
  CASE c = "Y" -> "y" [] c = "E" -> "e" [] c = "S" -> "s"
    [] c = "N" -> "n" [] c = "O" -> "o" [] OTHER -> c

\* strings.ToLower
ToLower(w) == [i \in 1..Len(w) |-> LowerChar(w[i])]

\* the switch of deleteConfirmation
Answer(response) ==
  IF ToLower(response) \in {<<"y">>, <<"y","e","s">>} THEN "yes"
  ELSE IF ToLower(response) \in {<<"n">>, <<"n","o">>} THEN "no"
  ELSE "again"

----------------------------------------------------------------------------
(* The order of the blocks of delete() and deleteWorkload() *)


\* Variant: the Service block placed before the StatefulSet block
StageOrderAuxFirst == <<"Deployment", "Service", "StatefulSet", "Secret", "ClusterRole">>


\* Variant: the StatefulSet block placed before the Deployment block
StageOrderStatefulFirst == <<"StatefulSet", "Deployment", "Service", "Secret", "ClusterRole">>

\* Variant: the ClusterRole block placed before the namespaced blocks
StageOrderRolesFirst == <<"ClusterRole", "Deployment", "StatefulSet", "Service", "Secret">>

StageOrder == <<"Deployment", "StatefulSet", "Service", "Secret", "ClusterRole">>

StageIndex(kind) == CHOOSE i \in 1..Len(StageOrder) : StageOrder[i] = kind

\* Namespaced clients take o.Namespace; ClusterRoles() and Nodes() take none.
NsOf(kind) == IF kind \in {"ClusterRole", "Node"} THEN "" ELSE o.Namespace

SelectorOf(kind) == IF kind = "Node" THEN karmadaNodeLabel ELSE LabelSelector


\* Variant: the dry-run test left out of the loops
DryRunNeverSkips == FALSE


\* Variant: the loops skip the call whatever the flag
DryRunAlwaysSkips == TRUE

\* `if o.DryRun { continue }`
DryRunSkips == o.DryRun


\* Variant: the error of a call dropped instead of returned
ReturnsNever(res) == FALSE


\* Variant: only a "not found" answer is returned, other errors are dropped
ReturnsOnlyNotFound(res) == res = "notfound"

\* `if err != nil { return err }` after a list, delete or update call
Returns(res) == res # "ok"


\* Variant: the answer of the prompt not consulted
DeclinedNever(answer) == FALSE

\* `if !deleteConfirmation() { return nil }`
Declined(answer) == answer = "no"


\* Variant: only the label equal to removesLabel is deleted
removeLabelsExactKey(labels, removesLabel) ==
  [k \in DOMAIN labels \ {removesLabel} |-> labels[k]]

\* Variant: the loop deletes nothing
removeLabelsNothing(labels, removesLabel) == labels

\* removeLabels(node, removesLabel), on the label map of the node
removeLabels(labels, removesLabel) ==
  [k \in {l \in DOMAIN labels : ~Contains(l, removesLabel)} |-> labels[k]]

----------------------------------------------------------------------------
(* Initial state: a cluster, and the command not yet invoked *)

Idle(cluster) ==
  /\ objects = cluster
  /\ namespaces = {TargetNS, OtherNS}
  /\ o = [DryRun |-> FALSE, Namespace |-> TargetNS]
  /\ stdin = <<>>
  /\ read = <<>>
  /\ confirmed = "pending"
  /\ pc = "start"
  /\ stage = "none"
  /\ items = <<>>
  /\ idx = 0
  /\ err = "none"
  /\ log = <<>>
  /\ start = cluster
  /\ prevDone = FALSE
  /\ removedByOther = {}

Init == \E c \in Clusters : Idle(c)

\* NewCmdDeInit: the flags are parsed into the options
Invoke ==
  /\ pc = "start"
  /\ \E d \in BOOLEAN, ns \in {TargetNS, NoSuchNS} :
       o' = [DryRun |-> d, Namespace |-> ns]
  /\ stdin' \in RunStdin
  /\ pc' = "complete"
  /\ UNCHANGED <<objects, namespaces, read, confirmed, stage, items, idx, err, log,
                 start, prevDone, removedByOther>>


\* Variant: the result of the namespace lookup not checked
CompleteErrSkipsNamespace(exists, restConfig, clientSet, get) ==
  IF ~exists THEN "ErrEmptyConfig"
  ELSE IF ~restConfig THEN "restConfigErr"
  ELSE IF ~clientSet THEN "clientSetErr"
  ELSE "nil"

\* What Complete() returns, given the outcome of each of its four calls
CompleteErr(exists, restConfig, clientSet, get) ==
  IF ~exists THEN "ErrEmptyConfig"
  ELSE IF ~restConfig THEN "restConfigErr"
  ELSE IF ~clientSet THEN "clientSetErr"
  ELSE IF get # "ok" THEN get
  ELSE "nil"

ConfigErrors == {"ErrEmptyConfig", "restConfigErr", "clientSetErr", "namespaceNotFound",
                 "namespaceGetFailed"}

\* Namespaces().Get(o.Namespace)
GetNamespace(fault) ==
  IF fault THEN "namespaceGetFailed"
  ELSE IF o.Namespace \notin namespaces THEN "namespaceNotFound"
  ELSE "ok"

\* RunE: opts.Complete(), then Run() up to its first read
Complete ==
  /\ pc = "complete"
  /\ \E exists \in BOOLEAN, restConfig \in BOOLEAN, clientSet \in BOOLEAN, fault \in BOOLEAN :
       LET e == CompleteErr(exists, restConfig, clientSet, GetNamespace(fault))
           called == exists /\ restConfig /\ clientSet
           lg == IF called
                 THEN Append(log, Call("get", "Namespace", o.Namespace,
                                       IF e = "nil" THEN "ok" ELSE e))
                 ELSE log
       IN IF e # "nil"
          THEN /\ pc' = "exited"
               /\ err' = e
               /\ log' = lg
          ELSE /\ pc' = "confirm"
               /\ err' = err
               /\ log' = Append(lg, Notice("banner", ""))
  /\ UNCHANGED <<objects, namespaces, o, stdin, read, confirmed, stage, items, idx,
                 start, prevDone, removedByOther>>

\* deleteConfirmation: one prompt and one read; Run() acts on the answer
Confirm ==
  /\ pc = "confirm"
  /\ LET r == Scanln(stdin)
         lg == Append(log, Notice("prompt", ""))
     IN /\ stdin' = IF stdin = <<>> THEN stdin ELSE Tail(stdin)
        /\ read' = IF stdin = <<>> THEN read ELSE Append(read, Head(stdin))
        /\ IF r.err # "nil"
           THEN /\ log' = Append(lg, Notice("scanerr", r.err))
                /\ pc' = "exited"
                /\ err' = "exit1"
                /\ UNCHANGED <<confirmed, stage>>
           ELSE IF Answer(r.response) = "again"
           THEN /\ log' = lg
                /\ UNCHANGED <<pc, err, confirmed, stage>>
           ELSE /\ log' = lg
                /\ confirmed' = Answer(r.response)
                /\ IF Declined(Answer(r.response))
                   THEN pc' = "exited" /\ err' = "nil" /\ stage' = stage
                   ELSE pc' = "list" /\ err' = err /\ stage' = StageOrder[1]
  /\ UNCHANGED <<objects, namespaces, o, items, idx, start, prevDone, removedByOther>>

----------------------------------------------------------------------------
(* The stages of delete(), deleteWorkload() and removeNodeLabels() *)

Goto(p, s, its, i, e, lg) ==
  /\ pc' = p
  /\ stage' = s
  /\ items' = its
  /\ idx' = i
  /\ err' = e
  /\ log' = lg


\* Variant: a finished block is entered again
StageAfterRelists(kind) == kind


\* Variant: after the ClusterRole block the Deployment block is entered again
StageAfterBack(kind) ==
  IF StageIndex(kind) < Len(StageOrder) THEN StageOrder[StageIndex(kind) + 1]
  ELSE StageOrder[1]

\* The block that follows the block of `kind`; Run() calls removeNodeLabels()
\* after delete() has returned nil.
StageAfter(kind) ==
  IF StageIndex(kind) < Len(StageOrder) THEN StageOrder[StageIndex(kind) + 1] ELSE "Node"

\* client.Delete(ctx, name, DeleteOptions{}) as the API server answers it
DeleteResult(kind, ns, name, fault) ==
  IF fault THEN "fatal"
  ELSE IF ~Stored(kind, ns, name) THEN "notfound"
  ELSE "ok"

\* nodeClient.Update(ctx, node, UpdateOptions{}) as the API server answers it
UpdateResult(name, fault) ==
  IF fault THEN "fatal"
  ELSE IF ~Stored("Node", "", name) THEN "notfound"
  ELSE "ok"

\* client.List of one block, and the loop entry
ListStage(kind) ==
  /\ pc = "list"
  /\ stage = kind
  /\ \E res \in {"ok", "fatal"} :
       LET its == IF res = "ok" THEN ListItems(kind, NsOf(kind), SelectorOf(kind)) ELSE <<>>
           lg == Append(log, Ev("list", kind, "", res, Names(its)))
       IN IF Returns(res) THEN Goto("exited", stage, <<>>, 0, res, lg)
          ELSE IF its = <<>> THEN Goto("list", StageAfter(kind), <<>>, 0, err, lg)
          ELSE Goto("loop", stage, its, 1, err, lg)
  /\ UNCHANGED <<objects, namespaces, o, stdin, read, confirmed, start, prevDone,
                 removedByOther>>

\* One iteration of `for _, x := range list.Items`: notice, dry-run test, delete
RetireStage(kind) ==
  /\ pc = "loop"
  /\ stage = kind
  /\ LET it == items[idx]
         said == Append(log, Notice(kind, it.name))
         last == idx = Len(items)
     IN IF DryRunSkips
        THEN /\ objects' = objects
             /\ IF last THEN Goto("list", StageAfter(kind), <<>>, 0, err, said)
                ELSE Goto("loop", stage, items, idx + 1, err, said)
        ELSE \E fault \in BOOLEAN :
               LET res == DeleteResult(kind, NsOf(kind), it.name, fault)
                   lg == Append(said, Call("delete", kind, it.name, res))
               IN /\ objects' = IF res = "ok"
                                THEN {ob \in objects : Id(ob) # <<kind, NsOf(kind), it.name>>}
                                ELSE objects
                  /\ IF Returns(res) THEN Goto("exited", stage, <<>>, 0, res, lg)
                     ELSE IF last THEN Goto("list", StageAfter(kind), <<>>, 0, err, lg)
                     ELSE Goto("loop", stage, items, idx + 1, err, lg)
  /\ UNCHANGED <<namespaces, o, stdin, read, confirmed, start, prevDone, removedByOther>>

ListDeployments == ListStage("Deployment")
DeleteDeployments == RetireStage("Deployment")
ListStatefulSets == ListStage("StatefulSet")
DeleteStatefulSets == RetireStage("StatefulSet")
ListServices == ListStage("Service")
DeleteServices == RetireStage("Service")
ListSecrets == ListStage("Secret")
DeleteSecrets == RetireStage("Secret")
ListClusterRoles == ListStage("ClusterRole")
DeleteClusterRoles == RetireStage("ClusterRole")


\* Variant: an empty node list reported as an error
NoNodesIsError == "notfound"

\* `if len(nodes.Items) == 0 { ...; return nil }`
NoNodesResult == "nil"

\* removeNodeLabels up to the loop; Run() prints the success notice when it returns nil
ListNodes ==
  /\ pc = "list"
  /\ stage = "Node"
  /\ \E res \in {"ok", "fatal"} :
       LET its == IF res = "ok" THEN ListItems("Node", NsOf("Node"), SelectorOf("Node")) ELSE <<>>
           lg == Append(log, Ev("list", "Node", "", res, Names(its)))
       IN IF Returns(res) THEN Goto("exited", stage, <<>>, 0, res, lg)
          ELSE IF Len(its) = 0
          THEN Goto("exited", stage, <<>>, 0, NoNodesResult,
                    lg \o <<Notice("nodeNotFound", "")>>
                       \o (IF NoNodesResult = "nil" THEN <<Notice("success", "")>> ELSE <<>>))
          ELSE Goto("loop", stage, its, 1, err, lg)
  /\ UNCHANGED <<objects, namespaces, o, stdin, read, confirmed, start, prevDone,
                 removedByOther>>

\* One iteration of `for v := range nodes.Items`: strip, notice, dry-run test, update
UpdateNodes ==
  /\ pc = "loop"
  /\ stage = "Node"
  /\ LET node == [items[idx] EXCEPT !.labels = removeLabels(@, karmadaNodeLabel)]
         its == [items EXCEPT ![idx] = node]
         said == Append(log, Notice("Node", node.name))
         last == idx = Len(items)
     IN IF DryRunSkips
        THEN /\ objects' = objects
             /\ IF last THEN Goto("exited", stage, <<>>, 0, "nil", Append(said, Notice("success", "")))
                ELSE Goto("loop", stage, its, idx + 1, err, said)
        ELSE \E fault \in BOOLEAN :
               LET res == UpdateResult(node.name, fault)
                   lg == Append(said, Call("update", "Node", node.name, res))
               IN /\ objects' = IF res = "ok"
                                THEN {ob \in objects : Id(ob) # Id(node)} \cup {node}
                                ELSE objects
                  /\ IF Returns(res) THEN Goto("exited", stage, <<>>, 0, res, lg)
                     ELSE IF last
                     THEN Goto("exited", stage, <<>>, 0, "nil", Append(lg, Notice("success", "")))
                     ELSE Goto("loop", stage, its, idx + 1, err, lg)
  /\ UNCHANGED <<namespaces, o, stdin, read, confirmed, start, prevDone, removedByOther>>

\* Another actor removes an object between the list call and its delete call
ExternalDelete ==
  /\ pc = "loop"
  /\ stage # "Node"
  /\ Cardinality(removedByOther) < MaxExternal
  /\ \E i \in idx..Len(items) : \E ob \in objects :
       /\ Id(ob) = Id(items[i])
       /\ objects' = objects \ {ob}
       /\ removedByOther' = removedByOther \cup {ob}
  /\ UNCHANGED <<namespaces, o, stdin, read, confirmed, pc, stage, items, idx, err, log,
                 start, prevDone>>

\* The command has returned and is invoked again on the cluster as it is now
Rerun ==
  /\ pc = "exited"
  /\ objects' = objects
  /\ namespaces' = namespaces
  /\ o' = [DryRun |-> FALSE, Namespace |-> TargetNS]
  /\ stdin' = <<>>
  /\ read' = <<>>
  /\ confirmed' = "pending"
  /\ Goto("start", "none", <<>>, 0, "none", <<>>)
  /\ start' = objects
  /\ prevDone' = (err = "nil" /\ confirmed = "yes" /\ ~o.DryRun)
  /\ removedByOther' = {}

Next ==
  \/ Invoke
  \/ Complete
  \/ Confirm
  \/ ListDeployments
  \/ DeleteDeployments
  \/ ListStatefulSets
  \/ DeleteStatefulSets
  \/ ListServices
  \/ DeleteServices
  \/ ListSecrets
  \/ DeleteSecrets
  \/ ListClusterRoles
  \/ DeleteClusterRoles
  \/ ListNodes
  \/ UpdateNodes
  \/ ExternalDelete
  \/ Rerun

Spec == Init /\ [][Next]_vars

\* The steps of the command itself.  It is one sequential thread and every
\* call it issues returns, so a step that is enabled is eventually taken.
Step ==
  \/ Complete
  \/ Confirm
  \/ ListDeployments
  \/ DeleteDeployments
  \/ ListStatefulSets
  \/ DeleteStatefulSets
  \/ ListServices
  \/ DeleteServices
  \/ ListSecrets
  \/ DeleteSecrets
  \/ ListClusterRoles
  \/ DeleteClusterRoles
  \/ ListNodes
  \/ UpdateNodes

SpecLive == Init /\ [][Next]_vars /\ WF_vars(Step)

----------------------------------------------------------------------------
(* The prompt alone: deleteConfirmation on every input of up to MaxLines lines *)

InitPrompt ==
  /\ objects = {}
  /\ namespaces = {TargetNS, OtherNS}
  /\ o = [DryRun |-> FALSE, Namespace |-> TargetNS]
  /\ stdin \in SeqsUpTo(AllLines, MaxLines)
  /\ read = <<>>
  /\ confirmed = "pending"
  /\ pc = "confirm"
  /\ stage = "none"
  /\ items = <<>>
  /\ idx = 0
  /\ err = "none"
  /\ log = <<Notice("banner", "")>>
  /\ start = {}
  /\ prevDone = FALSE
  /\ removedByOther = {}

NextPrompt == Confirm

SpecPrompt == InitPrompt /\ [][NextPrompt]_vars

TypeOK ==
  /\ pc \in {"start", "complete", "confirm", "list", "loop", "exited"}
  /\ confirmed \in {"pending", "yes", "no"}
  /\ stage \in {"none", "Node"} \cup {StageOrder[i] : i \in 1..Len(StageOrder)}
  /\ err \in {"none", "nil", "fatal", "notfound", "exit1"} \cup ConfigErrors
  /\ UniqueIds(objects)
  /\ pc = "loop" => idx \in 1..Len(items)

----------------------------------------------------------------------------
(* Properties *)

WorkloadKinds == {"Deployment", "StatefulSet"}
AuxKinds == {"Service", "Secret"}
Mutations == {"delete", "update"}
ApiCalls == {"list", "delete", "update"}

Done == pc = "exited" /\ err = "nil" /\ confirmed = "yes"
Said(kind, name) == \E i \in DOMAIN log : log[i] = Notice(kind, name)
HasMarker(ob) == \E k \in DOMAIN ob.labels : Contains(k, karmadaNodeLabel)
InScope(ob) == ob.kind \in AuxKinds \cup WorkloadKinds /\ ob.ns = TargetNS
                 /\ LabelSelector \in DOMAIN ob.labels

\* C1: a Service or Secret list or delete call is issued only after both
\* workload kinds were listed and every listed workload was processed (its
\* notice printed and, outside dry-run, its delete call answered); once a
\* workload call has returned an error no Service or Secret call is issued.
C1_WorkloadsBeforeAuxiliary ==
  /\ \A i \in DOMAIN log :
       (log[i].op \in ApiCalls /\ log[i].kind \in AuxKinds) =>
         \A k \in WorkloadKinds : \E j \in 1..(i - 1) :
           /\ log[j] = Ev("list", k, "", "ok", log[j].names)
           /\ \A n \in 1..Len(log[j].names) :
                /\ \E m \in (j + 1)..(i - 1) : log[m] = Notice(k, log[j].names[n])
                /\ ~o.DryRun =>
                     \E m \in (j + 1)..(i - 1) :
                       log[m] = Call("delete", k, log[j].names[n], "ok")
  /\ (\E j \in DOMAIN log :
        log[j].op \in ApiCalls /\ log[j].kind \in WorkloadKinds /\ log[j].res # "ok")
       => \A i \in DOMAIN log : ~(log[i].op \in ApiCalls /\ log[i].kind \in AuxKinds)

C1_Witness ==
  /\ \E i \in DOMAIN log : log[i].op = "delete" /\ log[i].kind = "Service"
  /\ \E i \in DOMAIN log : log[i].op = "delete" /\ log[i].kind = "Deployment"
  /\ \E i \in DOMAIN log : log[i].op = "delete" /\ log[i].kind = "StatefulSet"

\* C2: a delete call answered "not found" does not make the command return
\* that answer as its error.
C2_NotFoundTolerated ==
  (\E i \in DOMAIN log : log[i].op = "delete" /\ log[i].res = "notfound")
    => err # "notfound"

\* C3: with the dry-run flag no delete and no update call is issued, the
\* cluster is what it was when the command began (but for what another actor
\* removed), and every object of every answered list call gets its notice.
C3_DryRunPurity ==
  o.DryRun =>
    /\ \A i \in DOMAIN log : log[i].op \notin Mutations
    /\ objects \cup removedByOther = start
    /\ objects \cap removedByOther = {}
    /\ \A i \in DOMAIN log :
         (log[i].op = "list" /\ log[i].res = "ok") =>
           \A n \in 1..Len(log[i].names) :
             \/ \E m \in (i + 1)..Len(log) : log[m] = Notice(log[i].kind, log[i].names[n])
             \/ pc = "loop" /\ stage = log[i].kind /\ idx <= n

C3_Witness ==
  /\ o.DryRun
  /\ Done
  /\ \E ob \in objects : ob.kind = "Node" /\ Said("Node", ob.name)
  /\ \E ob \in objects : InScope(ob) /\ Said(ob.kind, ob.name)

\* C4: after a negative answer no list, delete or update call is issued, the
\* cluster is unchanged, and the command returns nil without the success notice.
C4_DeclineShortCircuit ==
  confirmed = "no" =>
    /\ \A i \in DOMAIN log : log[i].op \notin ApiCalls
    /\ objects = start
    /\ pc = "exited"
    /\ err = "nil"
    /\ ~Said("success", "")

C4_Witness ==
  /\ confirmed = "no"
  /\ Len(read) = 2
  /\ \E ob \in objects : InScope(ob)

\* C5: a fatal answer of a list, delete or update call is the last thing the
\* command does: nothing is called or printed after it, the error is
\* returned, and the success notice is not printed.
C5_FatalAborts ==
  \A i \in DOMAIN log :
    (log[i].op \in ApiCalls /\ log[i].res = "fatal") =>
      /\ i = Len(log)
      /\ pc = "exited"
      /\ err = "fatal"
      /\ ~Said("success", "")

C5_Witness ==
  /\ log # <<>>
  /\ log[Len(log)] \in {Call("delete", "Service", n, "fatal") : n \in {"a", "b"}}
  /\ \E ob \in objects : InScope(ob) /\ ob.kind = "Secret"
  /\ \E ob \in objects : ob.kind = "Node" /\ karmadaNodeLabel \in DOMAIN ob.labels

\* C6: an invocation that follows a finished real teardown changes nothing,
\* issues no delete or update call, and returns nil when it is confirmed and
\* every call it issues is answered.
C6_SecondRunIdempotent ==
  prevDone =>
    /\ objects = start
    /\ \A i \in DOMAIN log : log[i].op \notin Mutations
    /\ (pc = "exited" /\ confirmed = "yes" /\ \A i \in DOMAIN log : log[i].res \in {"", "ok"})
         => err = "nil" /\ Said("success", "")

C6_Witness ==
  /\ prevDone
  /\ Done
  /\ ~o.DryRun
  /\ Obj("Node", "", "a", (KeyOther :> "1")) \in objects

\* C7: a node the label-strip pass has updated carries its original labels
\* minus every key containing "karmada.io/etcd", with the values unchanged; a
\* node with no such key is left as it was and is never the subject of a
\* notice or of a call.
C7_LabelStrip ==
  \A before \in start :
    before.kind = "Node" =>
      /\ (\E i \in DOMAIN log : log[i] = Call("update", "Node", before.name, "ok")) =>
           \E after \in objects :
             /\ Id(after) = Id(before)
             /\ DOMAIN after.labels =
                  {k \in DOMAIN before.labels : ~Contains(k, karmadaNodeLabel)}
             /\ \A k \in DOMAIN after.labels : after.labels[k] = before.labels[k]
      /\ ~HasMarker(before) =>
           /\ before \in objects
           /\ \A i \in DOMAIN log : ~(log[i].kind = "Node" /\ log[i].name = before.name)

C7_Witness ==
  /\ Obj("Node", "", "a", (karmadaNodeLabel :> "" @@ KeyOther :> "1")) \in start
  /\ Obj("Node", "", "a", (KeyOther :> "1")) \in objects
  /\ Obj("Node", "", "b", (KeyOther :> "1")) \in objects
  /\ \E i \in DOMAIN log : log[i] = Call("update", "Node", "a", "ok")

\* C8: after a real teardown that finished, no node carries a label whose
\* key contains "karmada.io/etcd".
C8_NoMarkerAfterDone ==
  (Done /\ ~o.DryRun) => \A ob \in objects : ob.kind = "Node" => ~HasMarker(ob)

\* C9: when Complete() returns an error nothing of Run() has happened (no
\* banner, no prompt, no read, no list, delete or update call, no change),
\* a missing namespace is such an error, and Run() starts only after the
\* namespace lookup has succeeded.
C9_ConfigErrorsFirst ==
  /\ err \in ConfigErrors =>
       /\ pc = "exited"
       /\ confirmed = "pending"
       /\ read = <<>>
       /\ objects = start
       /\ \A i \in DOMAIN log : log[i].op = "get"
  /\ (o.Namespace \notin namespaces /\ pc \notin {"start", "complete"})
       => err \in ConfigErrors
  /\ (\E i \in DOMAIN log : log[i].op # "get")
       => log[1] = Call("get", "Namespace", o.Namespace, "ok")

C9_Witness ==
  /\ err = "namespaceNotFound"
  /\ log = <<Call("get", "Namespace", NoSuchNS, "namespaceNotFound")>>
  /\ \E ob \in objects : InScope(ob)

Recognised(line) == Len(line) = 1 /\ line[1] \in WordsYes \cup WordsNo

\* C10: the prompt answers with the first recognised line (y/yes true, n/no
\* false, in any case), and a line that is not recognised, the empty line
\* included, never ends the command: it exits only when the input has ended.
C10_PromptReprompts ==
  /\ confirmed # "pending" =>
       /\ read # <<>>
       /\ \A i \in 1..(Len(read) - 1) : ~Recognised(read[i])
       /\ Recognised(read[Len(read)])
       /\ confirmed = IF read[Len(read)][1] \in WordsYes THEN "yes" ELSE "no"
  /\ err = "exit1" =>
       /\ stdin = <<>>
       /\ read # <<>> => (Len(read[Len(read)]) = 1 /\ ~Recognised(read[Len(read)]))

KindRank(kind) ==
  CASE kind = "Deployment" -> 1 [] kind = "StatefulSet" -> 2 [] kind = "Service" -> 3
    [] kind = "Secret" -> 4 [] kind = "ClusterRole" -> 5 [] kind = "Node" -> 6
    [] OTHER -> 0

RankKind(r) ==
  CASE r = 1 -> "Deployment" [] r = 2 -> "StatefulSet" [] r = 3 -> "Service"
    [] r = 4 -> "Secret" [] r = 5 -> "ClusterRole" [] OTHER -> "Node"

\* C11: the calls are issued in the order Deployments, StatefulSets,
\* Services, Secrets, ClusterRoles, Nodes: no call of an earlier kind follows
\* a call of a later kind, and a kind is listed only after the kind before it
\* was listed and each of its listed objects processed.
C11_StagesInOrder ==
  /\ \A i, j \in DOMAIN log :
       (i < j /\ log[i].op \in ApiCalls /\ log[j].op \in ApiCalls)
         => KindRank(log[i].kind) <= KindRank(log[j].kind)
  /\ \A j \in DOMAIN log :
       (log[j].op = "list" /\ KindRank(log[j].kind) > 1) =>
         \E i \in 1..(j - 1) :
           /\ log[i].op = "list"
           /\ log[i].kind = RankKind(KindRank(log[j].kind) - 1)
           /\ log[i].res = "ok"
           /\ \A n \in 1..Len(log[i].names) :
                /\ \E m \in (i + 1)..(j - 1) :
                     log[m].op = "print" /\ log[m].kind = log[i].kind
                       /\ log[m].name = log[i].names[n]
                /\ ~o.DryRun =>
                     \E m \in (i + 1)..(j - 1) :
                       log[m].op = "delete" /\ log[m].kind = log[i].kind
                         /\ log[m].name = log[i].names[n]

C11_Witness ==
  /\ \E i \in DOMAIN log : log[i].op = "delete" /\ log[i].kind = "Secret"
  /\ \E i \in DOMAIN log : log[i].op = "delete" /\ log[i].kind = "ClusterRole"
  /\ \E i \in DOMAIN log : log[i].op = "update" /\ log[i].kind = "Node"

\* C12: in a real teardown that no other actor disturbed, once a ClusterRole
\* delete call has been issued no labelled Deployment, StatefulSet, Service
\* or Secret remains in the target namespace.
C12_NamespacedGoneBeforeRoles ==
  (/\ ~o.DryRun
   /\ removedByOther = {}
   /\ \E i \in DOMAIN log : log[i].op = "delete" /\ log[i].kind = "ClusterRole")
    => \A ob \in objects : ~InScope(ob)

C12_Witness ==
  /\ pc = "loop"
  /\ stage = "ClusterRole"
  /\ idx = 2
  /\ \E ob \in start : InScope(ob)
  /\ \E i \in DOMAIN log : log[i].op = "delete" /\ log[i].kind = "ClusterRole"

\* C13: when the node list call answers with no node, no update call is
\* issued, the "node not found" line and the success notice are printed, and
\* the command has returned nil.
C13_NoNodesIsSuccess ==
  (\E i \in DOMAIN log : log[i].op = "list" /\ log[i].kind = "Node"
                           /\ log[i].res = "ok" /\ log[i].names = <<>>)
    => /\ \A i \in DOMAIN log : log[i].op # "update"
       /\ pc = "exited"
       /\ err = "nil"
       /\ \E i \in DOMAIN log : log[i].op = "print" /\ log[i].kind = "nodeNotFound"
       /\ log[Len(log)].op = "print" /\ log[Len(log)].kind = "success"

C13_Witness ==
  /\ \E i \in DOMAIN log : log[i].op = "list" /\ log[i].kind = "Node"
                             /\ log[i].res = "ok" /\ log[i].names = <<>>
  /\ \E ob \in objects : ob.kind = "Node"
  /\ \E i \in DOMAIN log : log[i].op = "delete" /\ log[i].res = "ok"

NodeCallFailed(e) == e.kind = "Node" /\ e.op \in {"list", "update"} /\ e.res # "ok"

\* C14: a failed node list or node update call is the last thing the command
\* does and its error is returned; every object an earlier delete call
\* removed is still absent and every node updated before still carries its
\* stripped labels.
C14_NodeFailureNoRollback ==
  \A i \in DOMAIN log :
    NodeCallFailed(log[i]) =>
      /\ i = Len(log)
      /\ pc = "exited"
      /\ err = log[i].res
      /\ \A j \in DOMAIN log :
           (log[j].op = "delete" /\ log[j].res = "ok") =>
             ~\E ob \in objects :
                /\ ob.kind = log[j].kind
                /\ ob.name = log[j].name
                /\ ob.ns = IF ob.kind = "ClusterRole" THEN "" ELSE TargetNS
      /\ \A j \in DOMAIN log :
           (log[j].op = "update" /\ log[j].res = "ok") =>
             \E ob \in objects :
               ob.kind = "Node" /\ ob.name = log[j].name /\ ~HasMarker(ob)

C14_Witness ==
  /\ log # <<>>
  /\ log[Len(log)].op = "update" /\ log[Len(log)].name = "b" /\ log[Len(log)].res = "fatal"
  /\ \E j \in DOMAIN log : log[j].op = "update" /\ log[j].name = "a" /\ log[j].res = "ok"
  /\ \E j \in DOMAIN log : log[j].op = "delete" /\ log[j].res = "ok"
  /\ \E ob \in objects : ob.kind = "Node" /\ ob.name = "b" /\ HasMarker(ob)

\* C15: within one invocation each kind is listed at most once, an object is
\* the subject of at most one delete or update call, and such a call is only
\* issued for a name the list call of its kind has returned.
C15_NoRetries ==
  /\ \A i, j \in DOMAIN log :
       (i < j /\ log[i].op = "list" /\ log[j].op = "list") => log[i].kind # log[j].kind
  /\ \A i, j \in DOMAIN log :
       (i < j /\ log[i].op \in Mutations /\ log[j].op \in Mutations)
         => ~(log[i].kind = log[j].kind /\ log[i].name = log[j].name)
  /\ \A j \in DOMAIN log :
       log[j].op \in Mutations =>
         \E i \in 1..(j - 1) :
           /\ log[i].op = "list" /\ log[i].kind = log[j].kind /\ log[i].res = "ok"
           /\ \E n \in 1..Len(log[i].names) : log[i].names[n] = log[j].name

C15_Witness ==
  /\ Done
  /\ \E i, j \in DOMAIN log :
       /\ log[i].op = "delete" /\ log[j].op = "delete"
       /\ log[i].kind = log[j].kind /\ log[i].name # log[j].name
  /\ \E i \in DOMAIN log : log[i].op = "update"

ObjectKinds == {"Deployment", "StatefulSet", "Service", "Secret", "ClusterRole", "Node"}
IsObjNotice(e) == e.op = "print" /\ e.kind \in ObjectKinds
IsAttempt(e) == e.op \in Mutations
Aborted == pc = "exited" /\ err \in {"fatal", "notfound"}

SameObjects(s, t) ==
  /\ Len(s) = Len(t)
  /\ \A i \in 1..Len(s) : s[i].kind = t[i].kind /\ s[i].name = t[i].name

NoticePrecedesCall ==
  \A i \in DOMAIN log :
    IsAttempt(log[i]) =>
      /\ i > 1
      /\ IsObjNotice(log[i - 1])
      /\ log[i - 1].kind = log[i].kind
      /\ log[i - 1].name = log[i].name

NoticesAreAttempts ==
  /\ SameObjects(SelectSeq(log, IsObjNotice), SelectSeq(log, IsAttempt))
  /\ (IsAttempt(log[Len(log)]) /\ log[Len(log)].res # "ok") =>
       LET said == SelectSeq(log, IsObjNotice)
       IN said[Len(said)].kind = log[Len(log)].kind
            /\ said[Len(said)].name = log[Len(log)].name

\* C16 as stated: every delete or update call follows a notice naming its
\* object, and at any abort the notices name exactly the objects whose
\* deletion or label removal was attempted, in order, the failed one last.
C16_NoticesTellProgress ==
  /\ NoticePrecedesCall
  /\ Aborted => NoticesAreAttempts

\* C16 amended: every delete or update call follows a notice naming its
\* object, and at an abort of a run without the dry-run flag the notices name
\* exactly the objects whose deletion or label removal was attempted, in
\* order, the object of a failed delete or update call last.
C16_NoticesTellProgressReal ==
  /\ NoticePrecedesCall
  /\ (Aborted /\ ~o.DryRun) => NoticesAreAttempts

C16_Witness ==
  /\ Aborted
  /\ ~o.DryRun
  /\ IsAttempt(log[Len(log)])
  /\ Len(SelectSeq(log, IsAttempt)) = 3

Position ==
  CASE pc = "start" -> 0
    [] pc = "complete" -> 1
    [] pc = "confirm" -> 2
    [] pc \in {"list", "loop"} -> 2 + KindRank(stage)
    [] OTHER -> 9

\* C17: once the prompt has answered, the command eventually returns (nil
\* after a decline or a finished teardown, the error otherwise), and within
\* an invocation it never goes back to an earlier stage.
C17_Terminates ==
  /\ (confirmed # "pending") ~> (pc = "exited" /\ err # "none")
  /\ [][pc' # "start" => Position' >= Position]_vars

C17_Witness ==
  /\ Done
  /\ ~o.DryRun
  /\ Len(SelectSeq(log, IsAttempt)) = 3

Targeted(ob) ==
  /\ ob.kind \in {"Deployment", "StatefulSet", "Service", "Secret", "ClusterRole"}
  /\ LabelSelector \in DOMAIN ob.labels
  /\ ob.ns = IF ob.kind = "ClusterRole" THEN "" ELSE TargetNS

\* C18: whatever the invocation does, every object without the bootstrap
\* label, in another namespace or of another kind is still stored unchanged,
\* every node is still stored with a subset of its labels and their values,
\* nothing new is stored, and the namespaces are the same.
C18_ScopeOnly ==
  /\ \A ob \in start : (ob.kind # "Node" /\ ~Targeted(ob)) => ob \in objects
  /\ \A ob \in start :
       ob.kind = "Node" =>
         \E nd \in objects :
           /\ Id(nd) = Id(ob)
           /\ DOMAIN nd.labels \subseteq DOMAIN ob.labels
           /\ \A k \in DOMAIN nd.labels : nd.labels[k] = ob.labels[k]
  /\ \A ob \in objects : ob \in start \/ ob.kind = "Node"
  /\ Cardinality({ob \in objects : ob.kind = "Node"})
       = Cardinality({ob \in start : ob.kind = "Node"})
  /\ namespaces = {TargetNS, OtherNS}

C18_Witness ==
  /\ Done
  /\ ~o.DryRun
  /\ \E ob \in objects : ob.kind # "Node" /\ ~Targeted(ob)
  /\ \E i \in DOMAIN log : log[i].op = "delete" /\ log[i].res = "ok"
  /\ \E i \in DOMAIN log : log[i].op = "update" /\ log[i].res = "ok"

SuccessPrinted == \E i \in DOMAIN log : log[i].op = "print" /\ log[i].kind = "success"

\* C19: when a real teardown that no other actor disturbed has finished, no
\* labelled Deployment, StatefulSet, Service or Secret of the target
\* namespace and no labelled ClusterRole is stored any more; the success
\* notice is printed only by a confirmed run that returns nil.
C19_CompleteRemoval ==
  /\ (Done /\ ~o.DryRun /\ removedByOther = {}) => \A ob \in objects : ~Targeted(ob)
  /\ SuccessPrinted => Done

C19_Witness ==
  /\ Done
  /\ ~o.DryRun
  /\ SuccessPrinted
  /\ \E ob \in start : Targeted(ob) /\ ob.kind = "ClusterRole"
  /\ \E ob \in start : Targeted(ob) /\ ob.kind \in WorkloadKinds
  /\ \E ob \in start : Targeted(ob) /\ ob.kind \in AuxKinds

====
